---- MODULE Spec2Model ----
(***************************************************************************)
(* KAMIYO fast voting (programs/kamiyo-fast-voting/src/lib.rs).            *)
(*                                                                         *)
(* The state is the set of program accounts (FastAction and FastVote       *)
(* records, keyed by their PDA seeds) and the cluster clock.  Every        *)
(* instruction is one atomic transaction: the account constraints of its   *)
(* Accounts struct are evaluated first, then the handler body; an error    *)
(* anywhere reverts every account write of the instruction.                *)
(***************************************************************************)
EXTENDS Integers, FiniteSets, Sequences, TLC

\* ---------------------------------------------------------------- constants
VOTING_WINDOW_SLOTS == 75
MIN_VOTES_FOR_QUORUM == 2
MAX_VOTES_PER_ACTION == 10000

\* [0u8; 32], the all-zero 32-byte array
ZERO_BYTES == 0

\* ------------------------------------------------------------------- bounds
\* Casts by signers outside Keys (each one a fresh key) that are followed on
\* an action's first MaxOther and on its last MaxOther votes.
MaxOther == 1
\* Largest slot of the model's clock; slot arithmetic overflows above it the
\* way u64 arithmetic overflows above u64::MAX.
SlotMax == 152
\* Largest votes_for and votes_against of the tally specification.
MaxTally == 6

\* ------------------------------------------------------------------- inputs
\* The signer keys whose FastVote accounts are tracked individually.
Keys == {1, 2}
Creators == {1}
ActionIds == {1}
Bytes32 == {ZERO_BYTES, 1}
DescriptionHashes == {ZERO_BYTES}
ThresholdInputs == {0, 50, 67, 101}
\* The slots at which transactions land.  An action created at slot 0 has its
\* deadline at 75 and is past it at 76; one created at 75 is past its deadline
\* (150) at 151; one created at 76 has its deadline at 151; at 151 the
\* deadline of a new action overflows.
Slots == {s \in {0, VOTING_WINDOW_SLOTS, VOTING_WINDOW_SLOTS + 1,
                 2 * VOTING_WINDOW_SLOTS + 1} : s <= SlotMax}

VARIABLES
    clock,            \* Clock::get()?.slot
    fast_action,      \* FastAction accounts, by action_id (the PDA seed)
    fast_vote,        \* FastVote accounts of the signers in Keys, by <<action_id, voter>>
    fast_vote_other,  \* number of FastVote accounts of signers outside Keys, by <<action_id, vote_value>>
    last              \* the last instruction and its outcome

vars == <<clock, fast_action, fast_vote, fast_vote_other, last>>

\* ------------------------------------------------------- checked arithmetic
None == -1

\* n is representable in 32 bits / in 64 bits
FitsU32(n) == n \div 65536 < 65536
FitsU64(n) == ((n \div 65536) \div 65536) \div 65536 < 65536

\* checked_add_u32 on a counter type that ends just below
\* MAX_VOTES_PER_ACTION.
checked_add_u32_narrow(x, y) == IF x + y < MAX_VOTES_PER_ACTION THEN x + y ELSE None

\* u32::checked_add
checked_add_u32(x, y) == IF FitsU32(x + y) THEN x + y ELSE None

\* u64::checked_add on slots (the model's slots end at SlotMax)
checked_add_slot(x, y) == IF x + y <= SlotMax THEN x + y ELSE None

\* u64::checked_mul, u64::checked_div
checked_mul_u64(x, y) == IF FitsU64(x * y) THEN x * y ELSE None
checked_div_u64(x, y) == IF y = 0 THEN None ELSE x \div y

\* ------------------------------------------------------------ account store
Exists(id) == id \in DOMAIN fast_action
HasVoted(id, voter) == <<id, voter>> \in DOMAIN fast_vote

Put(f, k, v) == [x \in DOMAIN f \cup {k} |-> IF x = k THEN v ELSE f[x]]

Outcome(op, err) == [op |-> op, err |-> err]

Init ==
    /\ clock = 0
    /\ fast_action = <<>>
    /\ fast_vote = <<>>
    /\ fast_vote_other = [k \in ActionIds \X BOOLEAN |-> 0]
    /\ last = Outcome("none", "Ok")

\* ------------------------------------------------------------------- clock
\* The cluster clock: non-decreasing, advanced by the environment.
Tick(slot) ==
    /\ slot > clock
    /\ clock' = slot
    /\ UNCHANGED <<fast_action, fast_vote, fast_vote_other, last>>

\* ------------------------------------------------------ create_fast_action
\* ThresholdValid without the lower bound.
ThresholdValid_zero_ok(threshold) == threshold <= 100

ThresholdValid(threshold) == threshold > 0 /\ threshold <= 100

create_fast_action_err(action_id, action_hash, threshold) ==
    IF Exists(action_id) THEN "AccountInUse"                       \* #[account(init)]
    ELSE IF ~ThresholdValid(threshold) THEN "InvalidThreshold"
    ELSE IF action_hash = ZERO_BYTES THEN "InvalidActionHash"
    ELSE IF checked_add_slot(clock, VOTING_WINDOW_SLOTS) = None THEN "SlotOverflow"
    ELSE "Ok"

NewFastAction(action_id, action_hash, threshold, description_hash, creator) ==
    [ action_id        |-> action_id,
      action_hash      |-> action_hash,
      description_hash |-> description_hash,
      creator          |-> creator,
      threshold        |-> threshold,
      votes_for        |-> 0,
      votes_against    |-> 0,
      vote_count       |-> 0,
      created_slot     |-> clock,
      deadline_slot    |-> checked_add_slot(clock, VOTING_WINDOW_SLOTS),
      executed         |-> FALSE,
      result           |-> "Pending" ]

CreateFastAction(action_id, action_hash, threshold, description_hash, creator) ==
    LET err == create_fast_action_err(action_id, action_hash, threshold) IN
    /\ last' = Outcome("create_fast_action", err)
    /\ IF err = "Ok"
       THEN fast_action' = Put(fast_action, action_id,
                NewFastAction(action_id, action_hash, threshold, description_hash, creator))
       ELSE UNCHANGED fast_action
    /\ UNCHANGED <<clock, fast_vote, fast_vote_other>>

\* --------------------------------------------------------- delegate_action
\* Hands the FastAction PDA to the rollup's delegation program.  It writes no
\* field of a FastAction or FastVote account.  pda_matches: the account passed
\* as `pda` is the PDA derived from action_id; delegated: delegate_pda's CPI
\* returned Ok.
delegate_action_err(pda_matches, delegated) ==
    IF ~pda_matches THEN "InvalidPda"
    ELSE IF ~delegated THEN "DelegateFailed"
    ELSE "Ok"

DelegateAction(action_id, pda_matches, delegated) ==
    /\ last' = Outcome("delegate_action", delegate_action_err(pda_matches, delegated))
    /\ UNCHANGED <<clock, fast_action, fast_vote, fast_vote_other>>

\* --------------------------------------------------------------- vote_fast
\* A signer outside Keys: every such cast comes from a key that has no
\* FastVote account yet.
OtherKey == Cardinality(Keys) + 1
Voters == Keys \cup {OtherKey}

OtherVotes(id) == fast_vote_other[<<id, TRUE>>] + fast_vote_other[<<id, FALSE>>]

\* The model follows this action's next cast by a signer outside Keys.
OtherFollowed(id) ==
    \/ OtherVotes(id) < MaxOther
    \/ OtherVotes(id) >= MAX_VOTES_PER_ACTION - MaxOther

\* VotingOpen with the deadline slot itself excluded.
VotingOpen_exclusive(now, deadline_slot) == now < deadline_slot

\* VotingOpen that closes one slot late.
VotingOpen_one_slot_late(now, deadline_slot) == now <= deadline_slot + 1

\* require!(clock.slot <= action.deadline_slot, VotingEnded)
VotingOpen(now, deadline_slot) == now <= deadline_slot

\* BelowMaxVotes that stops one vote early.
BelowMaxVotes_off_by_one(vote_count) == vote_count + 1 < MAX_VOTES_PER_ACTION

\* BelowMaxVotes that admits a vote at MAX_VOTES_PER_ACTION.
BelowMaxVotes_inclusive(vote_count) == vote_count <= MAX_VOTES_PER_ACTION

\* require!(action.vote_count < MAX_VOTES_PER_ACTION, MaxVotesReached)
BelowMaxVotes(vote_count) == vote_count < MAX_VOTES_PER_ACTION

\* CountVote whose `against` branch reads the other counter.
CountVote_against_from_for(a, vote_value) ==
    [a EXCEPT !.votes_for     = IF vote_value THEN checked_add_u32(@, 1) ELSE @,
              !.votes_against = IF vote_value THEN @ ELSE checked_add_u32(a.votes_for, 1),
              !.vote_count    = checked_add_u32(@, 1)]

\* CountVote with the vote_count increment moved into the `for` branch.
CountVote_count_in_for_branch(a, vote_value) ==
    [a EXCEPT !.votes_for     = IF vote_value THEN checked_add_u32(@, 1) ELSE @,
              !.votes_against = IF vote_value THEN @ ELSE checked_add_u32(@, 1),
              !.vote_count    = IF vote_value THEN checked_add_u32(@, 1) ELSE @]

\* The counters of `a` after one vote of value vote_value; None in a counter
\* that overflowed.
CountVote(a, vote_value) ==
    [a EXCEPT !.votes_for     = IF vote_value THEN checked_add_u32(@, 1) ELSE @,
              !.votes_against = IF vote_value THEN @ ELSE checked_add_u32(@, 1),
              !.vote_count    = checked_add_u32(@, 1)]

\* vote_fast_accounts with `init_if_needed` in place of `init` on fast_vote.
vote_fast_accounts_init_if_needed(action_id, voter) ==
    IF ~Exists(action_id) THEN "AccountNotInitialized" ELSE "Ok"

\* The account constraints of VoteFast: fast_action is an initialized
\* FastAction; fast_vote is created by `init`, which fails when the account
\* at seeds [FAST_VOTE_SEED, fast_action, voter] already exists.
vote_fast_accounts(action_id, voter) ==
    IF ~Exists(action_id) THEN "AccountNotInitialized"
    ELSE IF voter \in Keys /\ HasVoted(action_id, voter) THEN "AccountInUse"
    ELSE "Ok"

\* The handler body on the FastAction `action` at slot `now`.
vote_fast_handler(action, now, vote_value, voter_commitment) ==
    IF action.executed THEN "ActionAlreadyExecuted"
    ELSE IF ~VotingOpen(now, action.deadline_slot) THEN "VotingEnded"
    ELSE IF ~BelowMaxVotes(action.vote_count) THEN "MaxVotesReached"
    ELSE IF voter_commitment = ZERO_BYTES THEN "InvalidVoterCommitment"
    ELSE LET counted == CountVote(action, vote_value) IN
         IF None \in {counted.votes_for, counted.votes_against, counted.vote_count}
         THEN "VoteOverflow"
         ELSE "Ok"

vote_fast_err(action_id, voter, vote_value, voter_commitment) ==
    IF vote_fast_accounts(action_id, voter) # "Ok"
    THEN vote_fast_accounts(action_id, voter)
    ELSE vote_fast_handler(fast_action[action_id], clock, vote_value, voter_commitment)

\* NewFastVote that stores the opposite vote_value.
NewFastVote_flipped(action_id, voter, vote_value, voter_commitment) ==
    [ fast_action      |-> action_id,
      voter            |-> voter,
      voter_commitment |-> voter_commitment,
      vote_value       |-> ~vote_value,
      voted_slot       |-> clock ]

NewFastVote(action_id, voter, vote_value, voter_commitment) ==
    [ fast_action      |-> action_id,
      voter            |-> voter,
      voter_commitment |-> voter_commitment,
      vote_value       |-> vote_value,
      voted_slot       |-> clock ]

\* VoteFast whose `init` of the FastVote account survives an error of the
\* handler.
VoteFast_record_kept(action_id, voter, vote_value, voter_commitment) ==
    LET err == vote_fast_err(action_id, voter, vote_value, voter_commitment) IN
    /\ voter = OtherKey => OtherFollowed(action_id)
    /\ last' = Outcome("vote_fast", err)
    /\ fast_action' = IF err = "Ok"
                      THEN [fast_action EXCEPT ![action_id] = CountVote(@, vote_value)]
                      ELSE fast_action
    /\ IF vote_fast_accounts(action_id, voter) = "Ok" /\ voter \in Keys
       THEN fast_vote' = Put(fast_vote, <<action_id, voter>>,
                NewFastVote(action_id, voter, vote_value, voter_commitment))
       ELSE UNCHANGED fast_vote
    /\ fast_vote_other' =
          IF err = "Ok" /\ voter \notin Keys
          THEN [fast_vote_other EXCEPT ![<<action_id, vote_value>>] = @ + 1]
          ELSE fast_vote_other
    /\ UNCHANGED clock

VoteFast(action_id, voter, vote_value, voter_commitment) ==
    LET err == vote_fast_err(action_id, voter, vote_value, voter_commitment) IN
    /\ voter = OtherKey => OtherFollowed(action_id)
    /\ last' = Outcome("vote_fast", err)
    /\ IF err = "Ok"
       THEN /\ fast_action' = [fast_action EXCEPT ![action_id] = CountVote(@, vote_value)]
            /\ IF voter \in Keys
               THEN /\ fast_vote' = Put(fast_vote, <<action_id, voter>>,
                            NewFastVote(action_id, voter, vote_value, voter_commitment))
                    /\ UNCHANGED fast_vote_other
               ELSE /\ fast_vote_other' =
                            [fast_vote_other EXCEPT ![<<action_id, vote_value>>] = @ + 1]
                    /\ UNCHANGED fast_vote
       ELSE UNCHANGED <<fast_action, fast_vote, fast_vote_other>>
    /\ UNCHANGED clock

\* -------------------------------------------------------- tally_and_commit
\* VotingEndedAt with the deadline slot itself included.
VotingEndedAt_inclusive(now, deadline_slot) == now >= deadline_slot

\* require!(clock.slot > action.deadline_slot, VotingNotEnded)
VotingEndedAt(now, deadline_slot) == now > deadline_slot

\* QuorumMet that is satisfied by any vote at all.
QuorumMet_any_vote(vote_count) == vote_count > 0

\* QuorumMet that is not checked.
QuorumMet_unchecked(vote_count) == TRUE

\* require!(action.vote_count >= MIN_VOTES_FOR_QUORUM, QuorumNotMet)
QuorumMet(vote_count) == vote_count >= MIN_VOTES_FOR_QUORUM

\* (votes_for as u64).checked_mul(100)?.checked_div(total_votes as u64)?
approval_pct(votes_for, total_votes) ==
    LET product == checked_mul_u64(votes_for, 100) IN
    IF product = None THEN None ELSE checked_div_u64(product, total_votes)

\* Verdict with a strict comparison.
Verdict_strict(pct, threshold) == IF pct > threshold THEN "Passed" ELSE "Failed"

\* if approval_pct >= action.threshold as u64 { Passed } else { Failed }
Verdict(pct, threshold) == IF pct >= threshold THEN "Passed" ELSE "Failed"

\* The tally of lines 139-155: the result, or the error that stops it.
tally(votes_for, votes_against, threshold) ==
    LET total_votes == checked_add_u32(votes_for, votes_against) IN
    IF total_votes = None THEN "VoteOverflow"
    ELSE IF ~(total_votes > 0) THEN "QuorumNotMet"
    ELSE IF approval_pct(votes_for, total_votes) = None THEN "VoteOverflow"
    ELSE Verdict(approval_pct(votes_for, total_votes), threshold)

\* The account constraints of TallyAndCommit.  context_ok, program_ok: the
\* accounts passed as magic_context and magic_program have the addresses
\* MAGIC_CONTEXT_ID and MAGIC_PROGRAM_ID.
tally_and_commit_accounts(action_id, context_ok, program_ok) ==
    IF ~Exists(action_id) THEN "AccountNotInitialized"
    ELSE IF ~context_ok THEN "InvalidMagicContext"
    ELSE IF ~program_ok THEN "InvalidMagicBlockProgram"
    ELSE "Ok"

\* tally_and_commit_handler without its require!(!action.executed, ...).
tally_and_commit_handler_no_gate(action, now, committed) ==
    IF ~VotingEndedAt(now, action.deadline_slot) THEN "VotingNotEnded"
    ELSE IF ~QuorumMet(action.vote_count) THEN "QuorumNotMet"
    ELSE LET r == tally(action.votes_for, action.votes_against, action.threshold) IN
         IF r \notin {"Passed", "Failed"} THEN r
         ELSE IF ~committed THEN "CommitFailed"
         ELSE "Ok"

\* The handler body on the FastAction `action` at slot `now`.  committed:
\* commit_and_undelegate_accounts returned Ok.
tally_and_commit_handler(action, now, committed) ==
    IF action.executed THEN "ActionAlreadyExecuted"
    ELSE IF ~VotingEndedAt(now, action.deadline_slot) THEN "VotingNotEnded"
    ELSE IF ~QuorumMet(action.vote_count) THEN "QuorumNotMet"
    ELSE LET r == tally(action.votes_for, action.votes_against, action.threshold) IN
         IF r \notin {"Passed", "Failed"} THEN r
         ELSE IF ~committed THEN "CommitFailed"
         ELSE "Ok"

tally_and_commit_err(action_id, context_ok, program_ok, committed) ==
    IF tally_and_commit_accounts(action_id, context_ok, program_ok) # "Ok"
    THEN tally_and_commit_accounts(action_id, context_ok, program_ok)
    ELSE tally_and_commit_handler(fast_action[action_id], clock, committed)

\* TallyAndCommit whose writes of result and executed survive a failed
\* commit_and_undelegate_accounts.
TallyAndCommit_partial(action_id, context_ok, program_ok, committed) ==
    LET err == tally_and_commit_err(action_id, context_ok, program_ok, committed) IN
    /\ last' = Outcome("tally_and_commit", err)
    /\ IF err \in {"Ok", "CommitFailed"}
       THEN LET action == fast_action[action_id] IN
            fast_action' = [fast_action EXCEPT ![action_id] =
                [action EXCEPT !.result = tally(action.votes_for, action.votes_against,
                                                action.threshold),
                               !.executed = TRUE]]
       ELSE UNCHANGED fast_action
    /\ UNCHANGED <<clock, fast_vote, fast_vote_other>>

TallyAndCommit(action_id, context_ok, program_ok, committed) ==
    LET err == tally_and_commit_err(action_id, context_ok, program_ok, committed) IN
    /\ last' = Outcome("tally_and_commit", err)
    /\ IF err = "Ok"
       THEN LET action == fast_action[action_id] IN
            fast_action' = [fast_action EXCEPT ![action_id] =
                [action EXCEPT !.result = tally(action.votes_for, action.votes_against,
                                                action.threshold),
                               !.executed = TRUE]]
       ELSE UNCHANGED fast_action
    /\ UNCHANGED <<clock, fast_vote, fast_vote_other>>

\* ----------------------------------------------------------- cancel_action
\* IsCreator that accepts every signer.
IsCreator_anyone(action, signer) == TRUE

\* constraint = fast_action.creator == creator.key() @ Unauthorized
IsCreator(action, signer) == action.creator = signer

\* The account constraints of CancelAction.
cancel_action_accounts(action_id, signer) ==
    IF ~Exists(action_id) THEN "AccountNotInitialized"
    ELSE IF ~IsCreator(fast_action[action_id], signer) THEN "Unauthorized"
    ELSE "Ok"

\* cancel_action_handler without its require!(!action.executed, ...).
cancel_action_handler_no_gate(action) == "Ok"

cancel_action_handler(action) ==
    IF action.executed THEN "ActionAlreadyExecuted" ELSE "Ok"

cancel_action_err(action_id, signer) ==
    IF cancel_action_accounts(action_id, signer) # "Ok"
    THEN cancel_action_accounts(action_id, signer)
    ELSE cancel_action_handler(fast_action[action_id])

\* CancelAction that stores the result without setting executed.
CancelAction_result_only(action_id, signer) ==
    LET err == cancel_action_err(action_id, signer) IN
    /\ last' = Outcome("cancel_action", err)
    /\ IF err = "Ok"
       THEN fast_action' = [fast_action EXCEPT ![action_id] =
                [fast_action[action_id] EXCEPT !.result = "Cancelled"]]
       ELSE UNCHANGED fast_action
    /\ UNCHANGED <<clock, fast_vote, fast_vote_other>>

CancelAction(action_id, signer) ==
    LET err == cancel_action_err(action_id, signer) IN
    /\ last' = Outcome("cancel_action", err)
    /\ IF err = "Ok"
       THEN fast_action' = [fast_action EXCEPT ![action_id] =
                [fast_action[action_id] EXCEPT !.executed = TRUE, !.result = "Cancelled"]]
       ELSE UNCHANGED fast_action
    /\ UNCHANGED <<clock, fast_vote, fast_vote_other>>

Next ==
    \/ \E s \in Slots : Tick(s)
    \/ \E id \in ActionIds, h \in Bytes32, t \in ThresholdInputs, dh \in DescriptionHashes, c \in Creators :
          CreateFastAction(id, h, t, dh, c)
    \/ \E id \in ActionIds, m \in BOOLEAN, ok \in BOOLEAN : DelegateAction(id, m, ok)
    \/ \E id \in ActionIds, v \in Voters, val \in BOOLEAN, vc \in Bytes32 :
          VoteFast(id, v, val, vc)
    \/ \E id \in ActionIds, cx \in BOOLEAN, pg \in BOOLEAN, ok \in BOOLEAN :
          TallyAndCommit(id, cx, pg, ok)
    \/ \E id \in ActionIds, s \in Keys : CancelAction(id, s)

Spec == Init /\ [][Next]_vars

\* ------------------------------------------------- tally specification
\* The tally of tally_and_commit on every counter pair up to MaxTally and
\* every threshold create_fast_action accepts: an action created at slot 0
\* whose votes all came from signers outside Keys, one slot past its deadline.
TallyAction(votes_for, votes_against, threshold) ==
    [ action_id        |-> 1,
      action_hash      |-> 1,
      description_hash |-> ZERO_BYTES,
      creator          |-> 1,
      threshold        |-> threshold,
      votes_for        |-> votes_for,
      votes_against    |-> votes_against,
      vote_count       |-> votes_for + votes_against,
      created_slot     |-> 0,
      deadline_slot    |-> VOTING_WINDOW_SLOTS,
      executed         |-> FALSE,
      result           |-> "Pending" ]

InitTally ==
    \E f \in 0..MaxTally, a \in 0..MaxTally, t \in 1..100 :
        /\ clock = VOTING_WINDOW_SLOTS + 1
        /\ fast_action = <<TallyAction(f, a, t)>>
        /\ fast_vote = <<>>
        /\ fast_vote_other = [k \in ActionIds \X BOOLEAN |-> IF k[2] THEN f ELSE a]
        /\ last = Outcome("none", "Ok")

NextTally ==
    \E id \in ActionIds, cx \in BOOLEAN, pg \in BOOLEAN, ok \in BOOLEAN :
        TallyAndCommit(id, cx, pg, ok)

SpecTally == InitTally /\ [][NextTally]_vars

\* ---------------------------------------------- nearly full specification
\* The program started either with no accounts or with an action that is one
\* or two votes short of MAX_VOTES_PER_ACTION, all of them cast at slot 0 by
\* signers outside Keys.
InitNearMax ==
    \E n \in {MAX_VOTES_PER_ACTION - 2, MAX_VOTES_PER_ACTION - 1}, a \in 0..1,
       t \in {50} :
        /\ clock = 0
        /\ fast_action = <<TallyAction(n - a, a, t)>>
        /\ fast_vote = <<>>
        /\ fast_vote_other = [k \in ActionIds \X BOOLEAN |-> IF k[2] THEN n - a ELSE a]
        /\ last = Outcome("none", "Ok")

SpecNearMax == (Init \/ InitNearMax) /\ [][Next]_vars
\* ===================================================================
\* Properties
\* ===================================================================
Finalized == {"Passed", "Failed"}
\* The step is the instruction `op` (every instruction leaves the clock alone
\* and records its outcome in last; only Tick moves the clock).
Ran(op) == clock' = clock /\ last'.op = op
CounterFields(a) == <<a.votes_for, a.votes_against, a.vote_count>>
NonZeroBytes == Bytes32 \ {ZERO_BYTES}

\* C1: in every reachable state every FastAction has
\* vote_count = votes_for + votes_against.
C1_CounterConservation ==
    \A id \in DOMAIN fast_action :
        fast_action[id].vote_count =
            fast_action[id].votes_for + fast_action[id].votes_against

\* A cast has just succeeded on an action that holds votes of both values.
C1_Witness ==
    /\ last = Outcome("vote_fast", "Ok")
    /\ \E id \in DOMAIN fast_action :
          fast_action[id].votes_for >= 1 /\ fast_action[id].votes_against >= 1

\* C2: a voter's FastVote account on an action, once created, stays as it is,
\* and every later vote_fast by that voter on that action fails on the
\* existing account (AccountInUse) and changes no account: no second record,
\* no second increment.  A successful vote_fast by a voter creates that
\* account, so at most one cast per (action, voter) ever succeeds.
C2_NoDoubleVote ==
    [][\A id \in ActionIds, v \in Keys :
          /\ HasVoted(id, v) =>
                /\ HasVoted(id, v)'
                /\ fast_vote'[<<id, v>>] = fast_vote[<<id, v>>]
          /\ Ran("vote_fast") =>
                \A val \in BOOLEAN, vc \in Bytes32 :
                    VoteFast(id, v, val, vc) =>
                        IF HasVoted(id, v)
                        THEN /\ last'.err = "AccountInUse"
                             /\ UNCHANGED <<fast_action, fast_vote, fast_vote_other>>
                        ELSE last'.err = "Ok" =>
                                /\ HasVoted(id, v)'
                                /\ CounterFields(fast_action'[id]) =
                                      CounterFields(CountVote(fast_action[id], val))
      ]_vars

\* A second cast by a voter who has a FastVote account has just been refused,
\* while another voter's cast went through before it.
C2_Witness ==
    /\ last = Outcome("vote_fast", "AccountInUse")
    /\ \E id \in DOMAIN fast_action :
          /\ ~fast_action[id].executed
          /\ clock <= fast_action[id].deadline_slot
          /\ fast_action[id].vote_count >= 2

\* C3: once a FastAction has executed = TRUE, every vote_fast,
\* tally_and_commit and cancel_action on it fails, and votes_for,
\* votes_against, vote_count, result and executed keep their values.
C3_TerminalMonotonicity ==
    [][\A id \in ActionIds :
          (Exists(id) /\ fast_action[id].executed) =>
              /\ CounterFields(fast_action'[id]) = CounterFields(fast_action[id])
              /\ fast_action'[id].result = fast_action[id].result
              /\ fast_action'[id].executed
              /\ Ran("vote_fast") =>
                    \A v \in Voters, val \in BOOLEAN, vc \in Bytes32 :
                        VoteFast(id, v, val, vc) => last'.err # "Ok"
              /\ Ran("tally_and_commit") =>
                    \A cx \in BOOLEAN, pg \in BOOLEAN, ok \in BOOLEAN :
                        TallyAndCommit(id, cx, pg, ok) => last'.err # "Ok"
              /\ Ran("cancel_action") =>
                    \A s \in Keys : CancelAction(id, s) => last'.err # "Ok"
      ]_vars

\* The creator's cancel_action on a finalized action has just been refused.
C3_Witness ==
    /\ last = Outcome("cancel_action", "ActionAlreadyExecuted")
    /\ \E id \in DOMAIN fast_action :
          fast_action[id].executed /\ fast_action[id].result \in Finalized

\* The FastAction id exists and is not executed.
Open(id) == Exists(id) /\ ~fast_action[id].executed

\* C4: on a non-executed action, a vote_fast by a voter without a FastVote
\* account, with a non-zero commitment and vote_count below
\* MAX_VOTES_PER_ACTION, succeeds at clock = deadline_slot (the vote is
\* recorded with voted_slot = deadline_slot and counted) and fails with
\* VotingEnded, changing no account, at every clock > deadline_slot.
C4_CastDeadlineBoundary ==
    [][Ran("vote_fast") =>
          \A id \in ActionIds, v \in Voters, val \in BOOLEAN, vc \in NonZeroBytes :
              ( /\ Open(id)
                /\ v \in Keys => ~HasVoted(id, v)
                /\ fast_action[id].vote_count < MAX_VOTES_PER_ACTION
                /\ VoteFast(id, v, val, vc) ) =>
                  /\ clock = fast_action[id].deadline_slot =>
                        /\ last'.err = "Ok"
                        /\ fast_action'[id].vote_count = fast_action[id].vote_count + 1
                        /\ v \in Keys =>
                              /\ HasVoted(id, v)'
                              /\ fast_vote'[<<id, v>>].voted_slot = fast_action[id].deadline_slot
                  /\ clock > fast_action[id].deadline_slot =>
                        /\ last'.err = "VotingEnded"
                        /\ UNCHANGED <<fast_action, fast_vote, fast_vote_other>>
      ]_vars

\* One voter's cast at the deadline slot is on record, and another voter's
\* cast one slot later has just been refused with VotingEnded.
C4_Witness ==
    /\ last = Outcome("vote_fast", "VotingEnded")
    /\ \E id \in DOMAIN fast_action, v \in Keys :
          /\ ~fast_action[id].executed
          /\ clock = fast_action[id].deadline_slot + 1
          /\ HasVoted(id, v)
          /\ fast_vote[<<id, v>>].voted_slot = fast_action[id].deadline_slot

\* The quorum check, stated on the stored counter.
HasQuorum(id) == fast_action[id].vote_count >= MIN_VOTES_FOR_QUORUM

\* C5 as claimed: on a non-executed action, tally_and_commit (called with
\* the MagicBlock accounts) fails with VotingNotEnded at every
\* clock <= deadline_slot, and at clock = deadline_slot + 1 it succeeds
\* provided vote_count >= MIN_VOTES_FOR_QUORUM.
C5_AsClaimed ==
    [][Ran("tally_and_commit") =>
          \A id \in ActionIds, ok \in BOOLEAN :
              (Open(id) /\ TallyAndCommit(id, TRUE, TRUE, ok)) =>
                  /\ clock <= fast_action[id].deadline_slot =>
                        last'.err = "VotingNotEnded"
                  /\ (clock = fast_action[id].deadline_slot + 1 /\ HasQuorum(id)) =>
                        last'.err = "Ok"
      ]_vars

\* C5, amended: on a non-executed action, tally_and_commit (called with the
\* MagicBlock accounts) fails with VotingNotEnded at every
\* clock <= deadline_slot, whatever the counters; at clock = deadline_slot + 1
\* with vote_count >= MIN_VOTES_FOR_QUORUM it succeeds when
\* commit_and_undelegate_accounts succeeds and fails, leaving the action as it
\* was, when that call fails.  No step gives an action the result Passed or
\* Failed at a clock that is not past its deadline_slot.
C5_FinalizeWindow ==
    [][/\ Ran("tally_and_commit") =>
            \A id \in ActionIds, ok \in BOOLEAN :
                (Open(id) /\ TallyAndCommit(id, TRUE, TRUE, ok)) =>
                    /\ clock <= fast_action[id].deadline_slot =>
                          /\ last'.err = "VotingNotEnded"
                          /\ UNCHANGED fast_action
                    /\ (clock = fast_action[id].deadline_slot + 1 /\ HasQuorum(id)) =>
                          IF ok
                          THEN /\ last'.err = "Ok"
                               /\ fast_action'[id].executed
                               /\ fast_action'[id].result \in Finalized
                          ELSE /\ last'.err = "CommitFailed"
                               /\ UNCHANGED fast_action
       /\ \A id \in DOMAIN fast_action :
            (fast_action[id].result \notin Finalized /\ fast_action'[id].result \in Finalized)
                => clock > fast_action[id].deadline_slot
      ]_vars

\* A tally_and_commit has just succeeded one slot after the deadline.
C5_Witness ==
    /\ last = Outcome("tally_and_commit", "Ok")
    /\ \E id \in DOMAIN fast_action :
          /\ clock = fast_action[id].deadline_slot + 1
          /\ fast_action[id].result \in Finalized

\* floor(votes_for * 100 / (votes_for + votes_against)) of a FastAction
Floor100(a) == (a.votes_for * 100) \div (a.votes_for + a.votes_against)

\* C6: a successful tally_and_commit leaves result = Passed exactly when
\* floor(votes_for * 100 / (votes_for + votes_against)) >= threshold and
\* result = Failed otherwise, for every counter pair and every threshold in
\* 1..100; equality passes; 3 for / 2 against passes at threshold 51 and
\* fails at threshold 70.
C6_TallyVerdict ==
    \A id \in DOMAIN fast_action :
        LET a == fast_action[id] IN
        /\ last = Outcome("tally_and_commit", "Ok") =>
              a.executed /\ a.result \in Finalized
        /\ a.result \in Finalized =>
              /\ a.votes_for + a.votes_against > 0
              /\ a.result = "Passed" <=> Floor100(a) >= a.threshold
              /\ a.result = "Failed" <=> Floor100(a) < a.threshold
              /\ Floor100(a) = a.threshold => a.result = "Passed"
              /\ (a.votes_for = 3 /\ a.votes_against = 2 /\ a.threshold = 51)
                    => a.result = "Passed"
              /\ (a.votes_for = 3 /\ a.votes_against = 2 /\ a.threshold = 70)
                    => a.result = "Failed"

\* 3 for / 2 against at threshold 60: approval equals the threshold, and the
\* tally that has just succeeded passed the action.
C6_Witness ==
    /\ last = Outcome("tally_and_commit", "Ok")
    /\ \E id \in DOMAIN fast_action :
          /\ fast_action[id].votes_for = 3
          /\ fast_action[id].votes_against = 2
          /\ fast_action[id].threshold = 60
          /\ fast_action[id].result = "Passed"

\* The votes cast on an action, counted from the FastVote accounts.
VotesCast(id, value) ==
    Cardinality({v \in Keys : HasVoted(id, v) /\ fast_vote[<<id, v>>].vote_value = value})
        + fast_vote_other[<<id, value>>]

\* C7: the counters of an action and the result of its tally are a function
\* of the set of votes cast on it (k for, N - k against), whatever the order
\* of the casts: votes_for = k, votes_against = N - k, vote_count = N, and a
\* finalized result is Passed exactly when floor(k * 100 / N) >= threshold;
\* and counting two votes in either order gives the same counters.
C7_OrderIndependence ==
    \A id \in DOMAIN fast_action :
        LET a == fast_action[id]
            k == VotesCast(id, TRUE)
            N == VotesCast(id, TRUE) + VotesCast(id, FALSE)
        IN
        /\ a.votes_for = k
        /\ a.votes_against = N - k
        /\ a.vote_count = N
        /\ a.result \in Finalized =>
              a.result = IF (k * 100) \div N >= a.threshold THEN "Passed" ELSE "Failed"
        /\ \A b1 \in BOOLEAN, b2 \in BOOLEAN :
              CountVote(CountVote(a, b1), b2) = CountVote(CountVote(a, b2), b1)

\* A finalized action with at least three votes, among them a `for` and an
\* `against` vote of two tracked voters who cast at different slots.
C7_Witness ==
    \E id \in DOMAIN fast_action, v \in Keys, w \in Keys :
        /\ fast_action[id].result \in Finalized
        /\ fast_action[id].vote_count >= 3
        /\ HasVoted(id, v) /\ HasVoted(id, w)
        /\ fast_vote[<<id, v>>].vote_value /\ ~fast_vote[<<id, w>>].vote_value
        /\ fast_vote[<<id, v>>].voted_slot < fast_vote[<<id, w>>].voted_slot

\* C8: on a non-executed action past its deadline with
\* vote_count < MIN_VOTES_FOR_QUORUM, tally_and_commit (called with the
\* MagicBlock accounts) fails with QuorumNotMet and leaves the action Pending
\* and not executed; every action whose result is Passed or Failed has
\* vote_count >= MIN_VOTES_FOR_QUORUM.
C8_QuorumGate ==
    [][/\ Ran("tally_and_commit") =>
            \A id \in ActionIds, ok \in BOOLEAN :
                ( /\ Open(id)
                  /\ clock > fast_action[id].deadline_slot
                  /\ fast_action[id].vote_count < MIN_VOTES_FOR_QUORUM
                  /\ TallyAndCommit(id, TRUE, TRUE, ok) ) =>
                    /\ last'.err = "QuorumNotMet"
                    /\ fast_action'[id] = fast_action[id]
                    /\ fast_action'[id].result = "Pending"
                    /\ ~fast_action'[id].executed
       /\ \A id \in DOMAIN fast_action' :
            fast_action'[id].result \in Finalized =>
                fast_action'[id].vote_count >= MIN_VOTES_FOR_QUORUM
      ]_vars

\* A tally_and_commit on an action with threshold 50 and a single vote has
\* just been refused with QuorumNotMet after the deadline.
C8_Witness ==
    /\ last = Outcome("tally_and_commit", "QuorumNotMet")
    /\ \E id \in DOMAIN fast_action :
          /\ clock > fast_action[id].deadline_slot
          /\ fast_action[id].threshold = 50
          /\ fast_action[id].vote_count = 1
          /\ fast_action[id].result = "Pending"
          /\ ~fast_action[id].executed

\* C9: cancel_action by the creator and tally_and_commit (called with the
\* MagicBlock accounts) exclude each other through `executed`.  On a
\* non-executed action the creator's cancel takes effect (executed, result
\* Cancelled); an action becomes executed only by a successful cancel, with
\* result Cancelled, or by a successful tally, with result Passed or Failed;
\* once it is executed, either instruction fails with ActionAlreadyExecuted
\* and the result is never overwritten.
C9_CancelFinalizeExclusive ==
    [][\A id \in DOMAIN fast_action :
          LET a == fast_action[id] IN
          /\ a.executed =>
                /\ fast_action'[id].executed
                /\ fast_action'[id].result = a.result
                /\ Ran("cancel_action") =>
                      (CancelAction(id, a.creator) => last'.err = "ActionAlreadyExecuted")
                /\ Ran("tally_and_commit") =>
                      \A ok \in BOOLEAN :
                          TallyAndCommit(id, TRUE, TRUE, ok) =>
                              last'.err = "ActionAlreadyExecuted"
          /\ ~a.executed =>
                /\ (Ran("cancel_action") /\ CancelAction(id, a.creator)) =>
                      /\ last'.err = "Ok"
                      /\ fast_action'[id].executed
                      /\ fast_action'[id].result = "Cancelled"
                /\ fast_action'[id].executed =>
                      \/ /\ last' = Outcome("cancel_action", "Ok")
                         /\ fast_action'[id].result = "Cancelled"
                      \/ /\ last' = Outcome("tally_and_commit", "Ok")
                         /\ fast_action'[id].result \in Finalized
                /\ ~fast_action'[id].executed => fast_action'[id].result = "Pending"
      ]_vars

\* The creator cancelled after two votes, and a tally_and_commit issued
\* before the deadline has just been refused with ActionAlreadyExecuted.
C9_Witness ==
    /\ last = Outcome("tally_and_commit", "ActionAlreadyExecuted")
    /\ \E id \in DOMAIN fast_action :
          /\ fast_action[id].result = "Cancelled"
          /\ fast_action[id].vote_count = 2
          /\ clock <= fast_action[id].deadline_slot

\* Voter v meets the preconditions of vote_fast on action id.
MayCast(id, v) ==
    /\ Open(id)
    /\ clock <= fast_action[id].deadline_slot
    /\ fast_action[id].vote_count < MAX_VOTES_PER_ACTION
    /\ v \in Keys => ~HasVoted(id, v)

\* Two different signers (two signers outside Keys are different keys).
Distinct(v, w) == v # w \/ v = OtherKey

\* The number of `for` / `against` votes among two vote values.
Fors(b1, b2) == (IF b1 THEN 1 ELSE 0) + (IF b2 THEN 1 ELSE 0)

\* After v's cast, which is this step, w's cast succeeds as well, and the
\* counters after it hold both votes.
BothCounted(id, v, b1, w, b2, vc) ==
    /\ last'.err = "Ok"
    /\ (vote_fast_err(id, w, b2, vc) = "Ok")'
    /\ CounterFields(CountVote(fast_action[id], b2))' =
          << fast_action[id].votes_for + Fors(b1, b2),
             fast_action[id].votes_against + (2 - Fors(b1, b2)),
             fast_action[id].vote_count + 2 >>

\* C10 as claimed: when two different voters both meet the preconditions of
\* vote_fast on an action, both casts succeed in either order and the
\* counters hold both votes.
C10_AsClaimed ==
    [][Ran("vote_fast") =>
          \A id \in ActionIds, v \in Voters, w \in Voters,
             b1 \in BOOLEAN, b2 \in BOOLEAN, vc \in NonZeroBytes :
              ( /\ Distinct(v, w)
                /\ MayCast(id, v) /\ MayCast(id, w)
                /\ VoteFast(id, v, b1, vc) ) =>
                  BothCounted(id, v, b1, w, b2, vc)
      ]_vars

\* C10, amended: when two different voters both meet the preconditions of
\* vote_fast on an action and the two casts run one after the other in the
\* same slot, then with vote_count <= MAX_VOTES_PER_ACTION - 2 both succeed in
\* either order and the counters hold both votes (vote_count + 2, votes_for
\* and votes_against raised by the `for` and `against` votes among the two);
\* with vote_count = MAX_VOTES_PER_ACTION - 1 the first succeeds and the
\* second fails with MaxVotesReached.
C10_NoLostUpdate ==
    [][Ran("vote_fast") =>
          \A id \in ActionIds, v \in Voters, w \in Voters,
             b1 \in BOOLEAN, b2 \in BOOLEAN, vc \in NonZeroBytes :
              ( /\ Distinct(v, w)
                /\ MayCast(id, v) /\ MayCast(id, w)
                /\ VoteFast(id, v, b1, vc) ) =>
                  IF fast_action[id].vote_count <= MAX_VOTES_PER_ACTION - 2
                  THEN BothCounted(id, v, b1, w, b2, vc)
                  ELSE /\ last'.err = "Ok"
                       /\ fast_action'[id].vote_count = MAX_VOTES_PER_ACTION
                       /\ (vote_fast_err(id, w, b2, vc) = "MaxVotesReached")'
      ]_vars

\* Both tracked voters cast in the same slot on an action that held
\* MAX_VOTES_PER_ACTION - 2 votes, one `for` and one `against`, and both
\* votes are counted.
C10_Witness ==
    /\ last = Outcome("vote_fast", "Ok")
    /\ \E id \in DOMAIN fast_action, v \in Keys, w \in Keys :
          /\ HasVoted(id, v) /\ HasVoted(id, w)
          /\ fast_vote[<<id, v>>].vote_value /\ ~fast_vote[<<id, w>>].vote_value
          /\ fast_vote[<<id, v>>].voted_slot = fast_vote[<<id, w>>].voted_slot
          /\ OtherVotes(id) = MAX_VOTES_PER_ACTION - 2
          /\ fast_action[id].vote_count = MAX_VOTES_PER_ACTION

\* C11: cancel_action on an existing action succeeds exactly when the signer
\* is the action's creator and executed is FALSE, whatever the clock (before,
\* at or after deadline_slot); a successful cancel sets executed = TRUE and
\* result = Cancelled and leaves every other field (votes_for, votes_against,
\* vote_count, threshold, deadline_slot among them) as it was; a signer other
\* than the creator fails with Unauthorized and changes no account.
C11_CancelContract ==
    [][Ran("cancel_action") =>
          \A id \in ActionIds, s \in Keys :
              (Exists(id) /\ CancelAction(id, s)) =>
                  LET a == fast_action[id] IN
                  /\ last'.err = "Ok" <=> (s = a.creator /\ ~a.executed)
                  /\ last'.err = "Ok" =>
                        /\ fast_action'[id].executed
                        /\ fast_action'[id].result = "Cancelled"
                        /\ CounterFields(fast_action'[id]) = CounterFields(a)
                        /\ fast_action'[id].threshold = a.threshold
                        /\ fast_action'[id].deadline_slot = a.deadline_slot
                        /\ fast_action'[id] =
                              [a EXCEPT !.executed = TRUE, !.result = "Cancelled"]
                  /\ s # a.creator =>
                        /\ last'.err = "Unauthorized"
                        /\ UNCHANGED <<fast_action, fast_vote, fast_vote_other>>
      ]_vars

\* The creator's cancel_action has just succeeded after the deadline, on an
\* action that holds a vote.
C11_Witness ==
    /\ last = Outcome("cancel_action", "Ok")
    /\ \E id \in DOMAIN fast_action :
          /\ clock > fast_action[id].deadline_slot
          /\ fast_action[id].vote_count >= 1
          /\ fast_action[id].result = "Cancelled"

\* The threshold is outside 1..100, in the claim's words.
ThresholdOutOfRange(t) == t = 0 \/ t > 100

\* The deadline of an action created now does not overflow.
DeadlineFits == clock + VOTING_WINDOW_SLOTS <= SlotMax

\* C12 as claimed: create_fast_action with threshold 0 or above 100 always
\* fails with InvalidThreshold and creates no action; with a threshold in
\* 1..100, a non-zero action_hash, an unused action_id and a deadline that
\* does not overflow it always succeeds; every stored action has its
\* threshold in 1..100.
C12_AsClaimed ==
    [][/\ Ran("create_fast_action") =>
            \A id \in ActionIds, h \in Bytes32, t \in ThresholdInputs,
               dh \in DescriptionHashes, c \in Creators :
                CreateFastAction(id, h, t, dh, c) =>
                    /\ ThresholdOutOfRange(t) =>
                          /\ last'.err = "InvalidThreshold"
                          /\ UNCHANGED fast_action
                    /\ (t \in 1..100 /\ h # ZERO_BYTES /\ ~Exists(id) /\ DeadlineFits) =>
                          last'.err = "Ok"
       /\ \A id \in DOMAIN fast_action' : fast_action'[id].threshold \in 1..100
      ]_vars

\* C12, amended: create_fast_action with threshold 0 or above 100 never
\* succeeds and never changes an account: on an unused action_id it fails
\* with InvalidThreshold, on a used one the `init` of the fast_action account
\* fails before the handler checks the threshold.  With a threshold in
\* 1..100, a non-zero action_hash, an unused action_id and a deadline that
\* does not overflow it always succeeds and stores the action with that
\* threshold.  Every stored action has its threshold in 1..100.
C12_ThresholdBound ==
    [][/\ Ran("create_fast_action") =>
            \A id \in ActionIds, h \in Bytes32, t \in ThresholdInputs,
               dh \in DescriptionHashes, c \in Creators :
                CreateFastAction(id, h, t, dh, c) =>
                    /\ ThresholdOutOfRange(t) =>
                          /\ last'.err = IF Exists(id) THEN "AccountInUse"
                                         ELSE "InvalidThreshold"
                          /\ UNCHANGED <<fast_action, fast_vote, fast_vote_other>>
                    /\ (t \in 1..100 /\ h # ZERO_BYTES /\ ~Exists(id) /\ DeadlineFits) =>
                          /\ last'.err = "Ok"
                          /\ Exists(id)'
                          /\ fast_action'[id].threshold = t
       /\ \A id \in DOMAIN fast_action' : fast_action'[id].threshold \in 1..100
      ]_vars

\* A create_fast_action with threshold 67 has just succeeded at slot 76, the
\* last slot of Slots whose deadline fits.
C12_Witness ==
    /\ last = Outcome("create_fast_action", "Ok")
    /\ \E id \in DOMAIN fast_action :
          /\ fast_action[id].threshold = 67
          /\ fast_action[id].created_slot = clock
          /\ clock = VOTING_WINDOW_SLOTS + 1

\* The tally of the stored counters of action id.
StoredTally(id) ==
    tally(fast_action[id].votes_for, fast_action[id].votes_against,
          fast_action[id].threshold)

\* C13: when tally_and_commit (called with the MagicBlock accounts) reaches
\* commit_and_undelegate_accounts and that call fails, the instruction fails
\* and no account is changed: the action keeps executed = FALSE, result =
\* Pending and its counters; a tally_and_commit whose commit succeeds, at this
\* or any later slot, then succeeds, and its tally is the one the failed
\* attempt had computed.  An action gets result Passed or Failed only in a
\* tally_and_commit step whose commit_and_undelegate_accounts succeeded, and
\* that step sets executed.
C13_CommitAtomicity ==
    [][/\ Ran("tally_and_commit") =>
            \A id \in ActionIds :
                ( /\ Open(id)
                  /\ clock > fast_action[id].deadline_slot
                  /\ HasQuorum(id)
                  /\ TallyAndCommit(id, TRUE, TRUE, FALSE) ) =>
                    /\ last'.err = "CommitFailed"
                    /\ UNCHANGED <<fast_action, fast_vote, fast_vote_other>>
                    /\ ~fast_action'[id].executed
                    /\ fast_action'[id].result = "Pending"
                    /\ CounterFields(fast_action'[id]) = CounterFields(fast_action[id])
                    /\ StoredTally(id)' = StoredTally(id)
                    /\ StoredTally(id) \in Finalized
                    /\ \A s \in Slots :
                          s >= clock =>
                              tally_and_commit_handler(fast_action'[id], s, TRUE) = "Ok"
       /\ \A id \in DOMAIN fast_action :
            (fast_action[id].result \notin Finalized /\ fast_action'[id].result \in Finalized) =>
                /\ last' = Outcome("tally_and_commit", "Ok")
                /\ fast_action'[id].executed
                /\ fast_action'[id].result = StoredTally(id)
                /\ TallyAndCommit(id, TRUE, TRUE, TRUE)
                /\ \A cx \in BOOLEAN, pg \in BOOLEAN : ~TallyAndCommit(id, cx, pg, FALSE)
       /\ \A id \in DOMAIN fast_action' :
            fast_action'[id].result \in Finalized => fast_action'[id].executed
      ]_vars

\* A tally_and_commit on an action past its deadline with a quorum of votes
\* has just failed in commit_and_undelegate_accounts; the action is Pending.
C13_Witness ==
    /\ last = Outcome("tally_and_commit", "CommitFailed")
    /\ \E id \in DOMAIN fast_action :
          /\ clock > fast_action[id].deadline_slot
          /\ fast_action[id].vote_count >= MIN_VOTES_FOR_QUORUM
          /\ ~fast_action[id].executed
          /\ fast_action[id].result = "Pending"

\* C14: in every reachable state every FastAction has executed = TRUE exactly
\* when its result is not Pending.  create_fast_action stores the action with
\* result Pending; afterwards the result changes only from Pending, to Passed
\* or Failed only in a successful tally_and_commit and to Cancelled only in a
\* successful cancel_action.
C14_ResultStateMachine ==
    /\ [](\A id \in DOMAIN fast_action :
            fast_action[id].executed <=> fast_action[id].result # "Pending")
    /\ [][\A id \in DOMAIN fast_action' :
            IF ~Exists(id)
            THEN /\ last' = Outcome("create_fast_action", "Ok")
                 /\ fast_action'[id].result = "Pending"
            ELSE fast_action'[id].result # fast_action[id].result =>
                    /\ fast_action[id].result = "Pending"
                    /\ fast_action'[id].result \in Finalized \cup {"Cancelled"}
                    /\ fast_action'[id].result \in Finalized <=>
                          last' = Outcome("tally_and_commit", "Ok")
                    /\ fast_action'[id].result = "Cancelled" <=>
                          last' = Outcome("cancel_action", "Ok")
        ]_vars

\* A tally_and_commit has just given an action the result Failed.
C14_Witness ==
    /\ last = Outcome("tally_and_commit", "Ok")
    /\ \E id \in DOMAIN fast_action :
          fast_action[id].executed /\ fast_action[id].result = "Failed"

\* The action holds MAX_VOTES_PER_ACTION votes.
Full(id) == Exists(id) /\ fast_action[id].vote_count = MAX_VOTES_PER_ACTION

\* C15 as claimed: every FastAction has vote_count <= MAX_VOTES_PER_ACTION,
\* and a vote_fast on an action with vote_count = MAX_VOTES_PER_ACTION fails
\* with MaxVotesReached and changes no account.
C15_AsClaimed ==
    /\ [](\A id \in DOMAIN fast_action :
            fast_action[id].vote_count <= MAX_VOTES_PER_ACTION)
    /\ [][Ran("vote_fast") =>
            \A id \in ActionIds, v \in Voters, val \in BOOLEAN, vc \in Bytes32 :
                (Full(id) /\ VoteFast(id, v, val, vc)) =>
                    /\ last'.err = "MaxVotesReached"
                    /\ UNCHANGED <<fast_action, fast_vote, fast_vote_other>>
        ]_vars

\* C15, amended: every FastAction has vote_count <= MAX_VOTES_PER_ACTION.  A
\* vote_fast on an action with vote_count = MAX_VOTES_PER_ACTION fails and
\* changes no account; the error is MaxVotesReached when the action is not
\* executed, the clock is not past deadline_slot and the voter has no
\* FastVote account on it (whatever the commitment), and the error of the
\* earlier check otherwise.  When two different voters without a FastVote
\* account cast in the same slot on an open action with
\* vote_count = MAX_VOTES_PER_ACTION - 1, the first cast brings vote_count to
\* MAX_VOTES_PER_ACTION and the second fails with MaxVotesReached.
C15_MaxVotesBound ==
    /\ [](\A id \in DOMAIN fast_action :
            fast_action[id].vote_count <= MAX_VOTES_PER_ACTION)
    /\ [][Ran("vote_fast") =>
            \A id \in ActionIds, v \in Voters, val \in BOOLEAN, vc \in Bytes32 :
                /\ (Full(id) /\ VoteFast(id, v, val, vc)) =>
                      /\ last'.err # "Ok"
                      /\ UNCHANGED <<fast_action, fast_vote, fast_vote_other>>
                      /\ last'.err =
                            IF v \in Keys /\ HasVoted(id, v) THEN "AccountInUse"
                            ELSE IF fast_action[id].executed THEN "ActionAlreadyExecuted"
                            ELSE IF clock > fast_action[id].deadline_slot THEN "VotingEnded"
                            ELSE "MaxVotesReached"
                /\ \A w \in Voters :
                      ( /\ Distinct(v, w)
                        /\ MayCast(id, v) /\ MayCast(id, w)
                        /\ fast_action[id].vote_count = MAX_VOTES_PER_ACTION - 1
                        /\ vc # ZERO_BYTES
                        /\ VoteFast(id, v, val, vc) ) =>
                          /\ Full(id)'
                          /\ \A b \in BOOLEAN, wc \in Bytes32 :
                                (vote_fast_err(id, w, b, wc) = "MaxVotesReached")'
        ]_vars

\* A vote_fast on an open action that holds MAX_VOTES_PER_ACTION votes has
\* just been refused with MaxVotesReached.
C15_Witness ==
    /\ last = Outcome("vote_fast", "MaxVotesReached")
    /\ \E id \in DOMAIN fast_action :
          /\ fast_action[id].vote_count = MAX_VOTES_PER_ACTION
          /\ ~fast_action[id].executed
          /\ clock <= fast_action[id].deadline_slot

\* The accounts of the program.
accounts == <<fast_action, fast_vote, fast_vote_other>>

\* C16: an instruction that returns an error changes no account.  A failed
\* create_fast_action stores no action; a vote_fast on an executed action,
\* past the deadline, on a full action, with a zero voter_commitment or by a
\* voter who has a FastVote account on the action fails, stores no FastVote
\* and changes no counter; a failed tally_and_commit or cancel_action leaves
\* the FastAction as it was.
C16_FailureAtomicity ==
    [][/\ (clock' = clock /\ last'.err # "Ok") => UNCHANGED accounts
       /\ Ran("create_fast_action") =>
             \A id \in ActionIds, h \in Bytes32, t \in ThresholdInputs,
                dh \in DescriptionHashes, c \in Creators :
                 (CreateFastAction(id, h, t, dh, c) /\ last'.err # "Ok") =>
                     DOMAIN fast_action' = DOMAIN fast_action
       /\ Ran("vote_fast") =>
             \A id \in ActionIds, v \in Voters, val \in BOOLEAN, vc \in Bytes32 :
                 ( /\ Exists(id)
                   /\ \/ fast_action[id].executed
                      \/ clock > fast_action[id].deadline_slot
                      \/ fast_action[id].vote_count >= MAX_VOTES_PER_ACTION
                      \/ vc = ZERO_BYTES
                      \/ v \in Keys /\ HasVoted(id, v)
                   /\ VoteFast(id, v, val, vc) ) =>
                     /\ last'.err \in {"ActionAlreadyExecuted", "VotingEnded",
                                       "MaxVotesReached", "InvalidVoterCommitment",
                                       "AccountInUse"}
                     /\ DOMAIN fast_vote' = DOMAIN fast_vote
                     /\ fast_vote_other' = fast_vote_other
                     /\ CounterFields(fast_action'[id]) = CounterFields(fast_action[id])
       /\ (Ran("tally_and_commit") \/ Ran("cancel_action")) =>
             \A id \in DOMAIN fast_action :
                 last'.err # "Ok" => fast_action'[id] = fast_action[id]
      ]_vars

\* A vote_fast with a zero voter_commitment has just been refused on an open
\* action that holds a vote, by a voter who has no FastVote account on it.
C16_Witness ==
    /\ last = Outcome("vote_fast", "InvalidVoterCommitment")
    /\ \E id \in DOMAIN fast_action :
          /\ ~fast_action[id].executed
          /\ fast_action[id].vote_count >= 1
          /\ \E v \in Keys : ~HasVoted(id, v)

\* The FastVote accounts of the signers in Keys that refer to action id.
RecordsOf(id) == {k \in DOMAIN fast_vote : fast_vote[k].fast_action = id}

\* The number of stored FastVote accounts that refer to action id with the
\* given vote_value.
StoredVotes(id, value) ==
    Cardinality({k \in RecordsOf(id) : fast_vote[k].vote_value = value})
        + fast_vote_other[<<id, value>>]

\* C17: in every reachable state, for every FastAction, the number of FastVote
\* accounts that refer to it equals vote_count, the number of those with
\* vote_value TRUE equals votes_for and the number with vote_value FALSE
\* equals votes_against; every FastVote account refers to the action of its
\* seeds.  No step, tally_and_commit and cancel_action included, changes or
\* removes a FastVote account.
C17_VoteRecordsMatchCounters ==
    /\ [](/\ \A id \in DOMAIN fast_action :
               /\ StoredVotes(id, TRUE) + StoredVotes(id, FALSE) = fast_action[id].vote_count
               /\ StoredVotes(id, TRUE) = fast_action[id].votes_for
               /\ StoredVotes(id, FALSE) = fast_action[id].votes_against
          /\ \A k \in DOMAIN fast_vote :
               /\ fast_vote[k].fast_action = k[1]
               /\ fast_vote[k].voter = k[2]
               /\ Exists(k[1]))
    /\ [][/\ \A k \in DOMAIN fast_vote :
               k \in DOMAIN fast_vote' /\ fast_vote'[k] = fast_vote[k]
          /\ \A k \in DOMAIN fast_vote_other :
               fast_vote_other'[k] >= fast_vote_other[k]
          /\ (Ran("tally_and_commit") \/ Ran("cancel_action")) =>
               UNCHANGED <<fast_vote, fast_vote_other>>
        ]_vars

\* An action was cancelled while it held a `for` and an `against` FastVote of
\* the signers in Keys and a third one; the last instruction was a
\* tally_and_commit.
C17_Witness ==
    /\ last.op = "tally_and_commit"
    /\ \E id \in DOMAIN fast_action :
          /\ fast_action[id].result = "Cancelled"
          /\ fast_action[id].vote_count = 3
          /\ \E v \in Keys, w \in Keys :
                /\ HasVoted(id, v) /\ HasVoted(id, w)
                /\ fast_vote[<<id, v>>].vote_value
                /\ ~fast_vote[<<id, w>>].vote_value

\* Some vote_fast / some tally_and_commit on action id would succeed now.
CastEnabled(id) ==
    \E v \in Voters, val \in BOOLEAN, vc \in Bytes32 : vote_fast_err(id, v, val, vc) = "Ok"
TallyEnabled(id) ==
    \E cx \in BOOLEAN, pg \in BOOLEAN, ok \in BOOLEAN :
        tally_and_commit_err(id, cx, pg, ok) = "Ok"

\* C18: the clock never decreases and deadline_slot never changes, and in no
\* state can both a vote_fast and a tally_and_commit on the same action
\* succeed.  Once the clock is past an action's deadline_slot - the first
\* moment a tally_and_commit can succeed - every vote_fast on it fails, no
\* FastVote is added and votes_for, votes_against and vote_count keep their
\* values in every step; in particular no vote_fast succeeds in a state that
\* follows a tally_and_commit refused with QuorumNotMet.
C18_VotingTallyDisjoint ==
    /\ [](\A id \in DOMAIN fast_action :
            /\ ~(CastEnabled(id) /\ TallyEnabled(id))
            /\ TallyEnabled(id) => clock > fast_action[id].deadline_slot
            /\ clock > fast_action[id].deadline_slot => ~CastEnabled(id)
            /\ last = Outcome("tally_and_commit", "QuorumNotMet") =>
                  (clock > fast_action[id].deadline_slot /\ ~CastEnabled(id)))
    /\ [][/\ clock' >= clock
          /\ \A id \in DOMAIN fast_action :
               /\ fast_action'[id].deadline_slot = fast_action[id].deadline_slot
               /\ clock > fast_action[id].deadline_slot =>
                     /\ CounterFields(fast_action'[id]) = CounterFields(fast_action[id])
                     /\ UNCHANGED <<fast_vote, fast_vote_other>>
                     /\ Ran("vote_fast") =>
                           \A v \in Voters, val \in BOOLEAN, vc \in Bytes32 :
                               VoteFast(id, v, val, vc) => last'.err # "Ok"
        ]_vars

\* Long after the deadline of an action that holds a single vote and is still
\* Pending, a vote_fast has just been refused with VotingEnded.
C18_Witness ==
    /\ last = Outcome("vote_fast", "VotingEnded")
    /\ \E id \in DOMAIN fast_action :
          /\ clock > fast_action[id].deadline_slot + 1
          /\ fast_action[id].vote_count = 1
          /\ fast_action[id].result = "Pending"

\* The clock is past the deadline of action id and the action holds fewer
\* votes than the quorum.
NoQuorumPast(id) ==
    /\ Exists(id)
    /\ clock > fast_action[id].deadline_slot
    /\ fast_action[id].vote_count < MIN_VOTES_FOR_QUORUM

\* C19 as claimed: an action with vote_count < MIN_VOTES_FOR_QUORUM when the
\* clock is past deadline_slot never gets the result Passed or Failed; while
\* it is not executed every tally_and_commit (called with the MagicBlock
\* accounts) fails with QuorumNotMet and every vote_fast fails with
\* VotingEnded, and only the creator's cancel_action changes it.
C19_AsClaimed ==
    [][\A id \in ActionIds :
          (NoQuorumPast(id) /\ ~fast_action[id].executed) =>
              /\ fast_action'[id].result \notin Finalized
              /\ Ran("tally_and_commit") =>
                    \A ok \in BOOLEAN :
                        TallyAndCommit(id, TRUE, TRUE, ok) => last'.err = "QuorumNotMet"
              /\ Ran("vote_fast") =>
                    \A v \in Voters, val \in BOOLEAN, vc \in Bytes32 :
                        VoteFast(id, v, val, vc) => last'.err = "VotingEnded"
              /\ fast_action'[id] # fast_action[id] =>
                    last' = Outcome("cancel_action", "Ok")
      ]_vars

\* C19, amended: an action with vote_count < MIN_VOTES_FOR_QUORUM when the
\* clock is past deadline_slot stays in that condition in every step and
\* never has the result Passed or Failed.  While it is not executed no
\* vote_fast and no tally_and_commit on it can succeed and the creator's
\* cancel_action can: every tally_and_commit (called with the MagicBlock
\* accounts) fails with QuorumNotMet; every vote_fast fails, with VotingEnded
\* when the voter has no FastVote account on the action and on the `init` of
\* that account when the voter has one; the only step that changes the action
\* is the creator's successful cancel_action, which makes it Cancelled.
C19_NoQuorumDeadEnd ==
    /\ [](\A id \in ActionIds :
            NoQuorumPast(id) =>
                /\ fast_action[id].result \notin Finalized
                /\ ~fast_action[id].executed =>
                      /\ ~CastEnabled(id)
                      /\ ~TallyEnabled(id)
                      /\ cancel_action_err(id, fast_action[id].creator) = "Ok")
    /\ [][\A id \in ActionIds :
            NoQuorumPast(id) =>
                /\ NoQuorumPast(id)'
                /\ fast_action'[id].result \notin Finalized
                /\ ~fast_action[id].executed =>
                      /\ Ran("tally_and_commit") =>
                            \A ok \in BOOLEAN :
                                TallyAndCommit(id, TRUE, TRUE, ok) =>
                                    last'.err = "QuorumNotMet"
                      /\ Ran("vote_fast") =>
                            \A v \in Voters, val \in BOOLEAN, vc \in Bytes32 :
                                VoteFast(id, v, val, vc) =>
                                    last'.err = IF v \in Keys /\ HasVoted(id, v)
                                                THEN "AccountInUse"
                                                ELSE "VotingEnded"
                      /\ fast_action'[id] # fast_action[id] =>
                            /\ last' = Outcome("cancel_action", "Ok")
                            /\ CancelAction(id, fast_action[id].creator)
                            /\ fast_action'[id].result = "Cancelled"
        ]_vars

\* Past the deadline of a Pending action whose only vote is a tracked
\* voter's, a vote_fast has just been refused on the existing FastVote
\* account.
C19_Witness ==
    /\ last = Outcome("vote_fast", "AccountInUse")
    /\ \E id \in DOMAIN fast_action :
          /\ clock > fast_action[id].deadline_slot
          /\ fast_action[id].vote_count = 1
          /\ \E v \in Keys : HasVoted(id, v)
          /\ fast_action[id].result = "Pending"

\* C20: no instruction ever returns VoteOverflow.  In every reachable state
\* every counter is at most MAX_VOTES_PER_ACTION, MAX_VOTES_PER_ACTION + 1 and
\* the sum of two counters fit in 32 bits and MAX_VOTES_PER_ACTION * 100 fits
\* in 64 bits, so no increment of vote_fast overflows and the tally of the
\* stored counters overflows neither in votes_for + votes_against nor in
\* votes_for * 100.  With vote_count >= MIN_VOTES_FOR_QUORUM the total of the
\* tally is positive, so its `total_votes > 0` check does not fail: a
\* tally_and_commit refused with QuorumNotMet was refused on vote_count.
C20_NoVoteOverflow ==
    /\ last.err # "VoteOverflow"
    /\ FitsU32(MAX_VOTES_PER_ACTION + 1)
    /\ FitsU32(2 * MAX_VOTES_PER_ACTION)
    /\ FitsU64(MAX_VOTES_PER_ACTION * 100)
    /\ \A id \in DOMAIN fast_action :
          LET a == fast_action[id] IN
          /\ a.votes_for <= MAX_VOTES_PER_ACTION
          /\ a.votes_against <= MAX_VOTES_PER_ACTION
          /\ a.vote_count <= MAX_VOTES_PER_ACTION
          /\ \A b \in BOOLEAN :
                None \notin {CountVote(a, b).votes_for, CountVote(a, b).votes_against,
                             CountVote(a, b).vote_count}
          /\ checked_add_u32(a.votes_for, a.votes_against) = a.votes_for + a.votes_against
          /\ checked_mul_u64(a.votes_for, 100) = a.votes_for * 100
          /\ StoredTally(id) # "VoteOverflow"
          /\ a.vote_count >= MIN_VOTES_FOR_QUORUM =>
                /\ a.votes_for + a.votes_against > 0
                /\ StoredTally(id) \in Finalized
          /\ last = Outcome("tally_and_commit", "QuorumNotMet") =>
                a.vote_count < MIN_VOTES_FOR_QUORUM

\* A tally_and_commit has just succeeded on an action that holds
\* MAX_VOTES_PER_ACTION votes.
C20_Witness ==
    /\ last = Outcome("tally_and_commit", "Ok")
    /\ \E id \in DOMAIN fast_action :
          /\ fast_action[id].vote_count = MAX_VOTES_PER_ACTION
          /\ fast_action[id].result \in Finalized
====
